---------------------------- MODULE Spec2Model ----------------------------
(***************************************************************************)
(* Listing-draft synthesis of the mobile eBay tool:                        *)
(* ListingGenerator.analyze_product_image with _parse_response,            *)
(* _build_result and _mock_result (src/simple_mobile_app.py).              *)
(*                                                                         *)
(* Text is a sequence of one-character strings, so that strip(), slicing,  *)
(* split() and float() act on characters as they do in Python.  A Python   *)
(* float is kept exactly as a whole number of hundredths (or inf / nan);   *)
(* every amount the model draws has at most two decimals.                  *)
(***************************************************************************)
EXTENDS Integers, Naturals, Sequences, FiniteSets, TLC

(***************************************************************************)
(* Text: str.strip, slicing, find, split, rsplit, replace                  *)
(***************************************************************************)
IsSpace(c) == c \in {" ", "\n", "\t"}

RECURSIVE lstrip(_)
lstrip(s) ==
    IF s = <<>> THEN s
    ELSE IF IsSpace(Head(s)) THEN lstrip(Tail(s)) ELSE s

RECURSIVE rstrip(_)
rstrip(s) ==
    IF s = <<>> THEN s
    ELSE IF IsSpace(s[Len(s)]) THEN rstrip(SubSeq(s, 1, Len(s) - 1)) ELSE s

strip(s) == rstrip(lstrip(s))

\* s[:n]
SliceTo(s, n) == SubSeq(s, 1, IF Len(s) < n THEN Len(s) ELSE n)

\* s.find(c) + 1: the first position of character c, 0 when absent
Find(s, c) ==
    IF \E i \in 1..Len(s) : s[i] = c
    THEN CHOOSE i \in 1..Len(s) : s[i] = c /\ \A j \in 1..(i - 1) : s[j] # c
    ELSE 0

\* s.rfind(c) + 1: the last position of character c, 0 when absent
RFind(s, c) ==
    IF \E i \in 1..Len(s) : s[i] = c
    THEN CHOOSE i \in 1..Len(s) : s[i] = c /\ \A j \in (i + 1)..Len(s) : s[j] # c
    ELSE 0

\* s.split(c, 1), for a text that contains c: <<before, after>> the first c
split1(s, c) ==
    <<SubSeq(s, 1, Find(s, c) - 1), SubSeq(s, Find(s, c) + 1, Len(s))>>

\* s.rsplit(c, 1)[0]: the text before the last c, the whole text without one
rsplit1_head(s, c) ==
    IF RFind(s, c) = 0 THEN s ELSE SubSeq(s, 1, RFind(s, c) - 1)

\* s.replace(a, b) for single characters
replace(s, a, b) ==
    CHOOSE t \in {[i \in 1..Len(u) |-> IF u[i] = a THEN b ELSE u[i]] : u \in {s}} : TRUE

\* n copies of the character c
Rep(c, n) == [i \in 1..n |-> c]

(***************************************************************************)
(* Decimal digits: str(int), and the digit runs float(str) reads           *)
(***************************************************************************)
Digits == <<"0", "1", "2", "3", "4", "5", "6", "7", "8", "9">>

IsDigit(c) == \E i \in 1..10 : Digits[i] = c

DigitVal(c) == (CHOOSE i \in 1..10 : Digits[i] = c) - 1

AllDigits(s) == \A i \in 1..Len(s) : IsDigit(s[i])

RECURSIVE DigitsVal(_)
DigitsVal(s) ==
    IF s = <<>> THEN 0
    ELSE 10 * DigitsVal(SubSeq(s, 1, Len(s) - 1)) + DigitVal(s[Len(s)])

RECURSIVE NatStr(_)
NatStr(n) ==
    IF n < 10 THEN <<Digits[n + 1]>>
    ELSE NatStr(n \div 10) \o <<Digits[(n % 10) + 1]>>

IntStr(n) == IF n < 0 THEN <<"-">> \o NatStr(-n) ELSE NatStr(n)

(***************************************************************************)
(* String literals of the program and of the replies the model draws      *)
(***************************************************************************)
\* what str() and float() write and read for None, True, False, inf, nan
Lit ==
    [none_ |-> <<"N", "o", "n", "e">>,
     true_ |-> <<"T", "r", "u", "e">>,
     false_ |-> <<"F", "a", "l", "s", "e">>,
     inf_ |-> <<"i", "n", "f">>,
     nan_ |-> <<"n", "a", "n">>]

\* the keys of the model's JSON object and of the completion envelope
Key ==
    [min |-> <<"m", "i", "n">>,
     max |-> <<"m", "a", "x">>,
     product_name |-> <<"p", "r", "o", "d", "u", "c", "t", "_", "n", "a", "m", "e">>,
     category |-> <<"c", "a", "t", "e", "g", "o", "r", "y">>,
     condition |-> <<"c", "o", "n", "d", "i", "t", "i", "o", "n">>,
     brand |-> <<"b", "r", "a", "n", "d">>,
     features |-> <<"f", "e", "a", "t", "u", "r", "e", "s">>,
     condition_details |-> <<"c", "o", "n", "d", "i", "t", "i", "o", "n", "_", "d", "e", "t", "a", "i", "l", "s">>,
     estimated_value_eur |-> <<"e", "s", "t", "i", "m", "a", "t", "e", "d", "_", "v", "a", "l", "u", "e", "_", "e", "u", "r">>,
     confidence_score |-> <<"c", "o", "n", "f", "i", "d", "e", "n", "c", "e", "_", "s", "c", "o", "r", "e">>,
     suggested_keywords |-> <<"s", "u", "g", "g", "e", "s", "t", "e", "d", "_", "k", "e", "y", "w", "o", "r", "d", "s">>,
     listing_title |-> <<"l", "i", "s", "t", "i", "n", "g", "_", "t", "i", "t", "l", "e">>,
     listing_description |-> <<"l", "i", "s", "t", "i", "n", "g", "_", "d", "e", "s", "c", "r", "i", "p", "t", "i", "o", "n">>,
     price_recommendation_eur |-> <<"p", "r", "i", "c", "e", "_", "r", "e", "c", "o", "m", "m", "e", "n", "d", "a", "t", "i", "o", "n", "_", "e", "u", "r">>,
     shipping_suggestion |-> <<"s", "h", "i", "p", "p", "i", "n", "g", "_", "s", "u", "g", "g", "e", "s", "t", "i", "o", "n">>,
     choices |-> <<"c", "h", "o", "i", "c", "e", "s">>,
     message |-> <<"m", "e", "s", "s", "a", "g", "e">>,
     content |-> <<"c", "o", "n", "t", "e", "n", "t">>]

\* the string literals of _build_result and _mock_result
Txt ==
    [unknown_product |-> <<"U", "n", "b", "e", "k", "a", "n", "n", "t", "e", "s", " ", "P", "r", "o", "d", "u", "k", "t">>,
     sonstiges |-> <<"S", "o", "n", "s", "t", "i", "g", "e", "s">>,
     gebraucht |-> <<"G", "e", "b", "r", "a", "u", "c", "h", "t">>,
     in |-> <<" ", "i", "n", " ">>,
     em_zustand |-> <<"e", "m", " ", "Z", "u", "s", "t", "a", "n", "d", ".", "\n">>,
     kategorie |-> <<"-", " ", "K", "a", "t", "e", "g", "o", "r", "i", "e", ":", " ">>,
     newline |-> <<"\n">>,
     versand_bullet |-> <<"-", " ", "V", "e", "r", "s", "a", "n", "d", " ", "n", "a", "c", "h", " ", "A", "b", "s", "p", "r", "a", "c", "h", "e", "\n">>,
     versand |-> <<"V", "e", "r", "s", "a", "n", "d", " ", "n", "a", "c", "h", " ", "A", "b", "s", "p", "r", "a", "c", "h", "e">>,
     produkt |-> <<"P", "r", "o", "d", "u", "k", "t">>,
     funktionsfaehig |-> <<"F", "u", "n", "k", "t", "i", "o", "n", "s", "f", "a", "e", "h", "i", "g">>,
     gepflegt |-> <<"G", "e", "p", "f", "l", "e", "g", "t">>,
     sofort |-> <<"S", "o", "f", "o", "r", "t", " ", "e", "i", "n", "s", "a", "t", "z", "b", "e", "r", "e", "i", "t">>,
     kw_gebraucht |-> <<"g", "e", "b", "r", "a", "u", "c", "h", "t">>,
     kw_top |-> <<"t", "o", "p", " ", "z", "u", "s", "t", "a", "n", "d">>,
     kw_versand |-> <<"s", "c", "h", "n", "e", "l", "l", "e", "r", " ", "v", "e", "r", "s", "a", "n", "d">>,
     dash |-> <<" ", "-", " ">>,
     lieferung |-> <<"-", " ", "L", "i", "e", "f", "e", "r", "u", "n", "g", " ", "w", "i", "e", " ", "a", "b", "g", "e", "b", "i", "l", "d", "e", "t", "\n">>,
     privat |-> <<"-", " ", "P", "r", "i", "v", "a", "t", "v", "e", "r", "k", "a", "u", "f", ",", " ", "k", "e", "i", "n", "e", " ", "G", "a", "r", "a", "n", "t", "i", "e", "\n">>,
     dhlabholung |-> <<"D", "H", "L", " ", "P", "a", "k", "e", "t", " ", "o", "d", "e", "r", " ", "A", "b", "h", "o", "l", "u", "n", "g">>]

\* texts of the replies and uploads the model draws
Sample ==
    [cannot |-> <<"I", " ", "c", "a", "n", "n", "o", "t", " ", "a", "n", "a", "l", "y", "z", "e", " ", "t", "h", "i", "s", " ", "i", "m", "a", "g", "e", ".">>,
     here_is |-> <<"H", "e", "r", "e", " ", "i", "s", " ", "t", "h", "e", " ", "l", "i", "s", "t", "i", "n", "g", ":", " ">>,
     hope |-> <<" ", "H", "o", "p", "e", " ", "t", "h", "i", "s", " ", "h", "e", "l", "p", "s", "!">>,
     fence_open |-> <<"~", "~", "~", "j", "s", "o", "n", "\n">>,
     fence_close |-> <<"\n", "~", "~", "~">>,
     use_placeholders |-> <<"F", "i", "l", "l", " ", "i", "n", " ", "{", "b", "r", "a", "n", "d", "}", " ", "a", "n", "d", " ", "{", "m", "o", "d", "e", "l", "}", ".">>,
     lautsprecher |-> <<"L", "a", "u", "t", "s", "p", "r", "e", "c", "h", "e", "r">>,
     elektronik |-> <<"E", "l", "e", "k", "t", "r", "o", "n", "i", "k">>,
     gut |-> <<"G", "u", "t">>,
     sony |-> <<"S", "o", "n", "y">>,
     bluetooth |-> <<"B", "l", "u", "e", "t", "o", "o", "t", "h">>,
     kw_lautsprecher |-> <<"l", "a", "u", "t", "s", "p", "r", "e", "c", "h", "e", "r">>,
     kw_sony |-> <<"s", "o", "n", "y">>,
     p7_title |-> <<"S", "o", "n", "y", " ", "L", "a", "u", "t", "s", "p", "r", "e", "c", "h", "e", "r", " ", "B", "l", "u", "e", "t", "o", "o", "t", "h", " ", "G", "u", "t">>,
     p7_description |-> <<"G", "e", "p", "f", "l", "e", "g", "t", "e", "r", " ", "L", "a", "u", "t", "s", "p", "r", "e", "c", "h", "e", "r", ".">>,
     dhlpaket |-> <<"D", "H", "L", " ", "P", "a", "k", "e", "t">>,
     high |-> <<"h", "i", "g", "h">>,
     abc |-> <<"a", "b", "c">>,
     sk |-> <<"s", "k", "-", "t", "e", "s", "t">>,
     file_speaker |-> <<"s", "o", "n", "y", "_", "s", "p", "e", "a", "k", "e", "r", ".", "j", "p", "g">>,
     file_only_ext |-> <<".", "j", "p", "g">>,
     file_underscores |-> <<"_", "_", "_">>]

\* the diagnostic notes of the fallback draft
NoteUnreachable == <<"O", "p", "e", "n", "A", "I", " ", "n", "i", "c", "h", "t", " ", "e", "r", "r", "e", "i", "c", "h", "b", "a", "r", ".", " ", "D", "e", "m", "o", "-", "D", "a", "t", "e", "n", " ", "g", "e", "n", "e", "r", "i", "e", "r", "t", ".">>
\* one note for every fallback, with or without a key
NoteForEveryFallback == NoteUnreachable
NoteDemo == <<"D", "e", "m", "o", "-", "M", "o", "d", "u", "s", " ", "a", "k", "t", "i", "v", " ", "(", "k", "e", "i", "n", " ", "O", "P", "E", "N", "A", "I", "_", "A", "P", "I", "_", "K", "E", "Y", ")", ".">>

(***************************************************************************)
(* Python values as json.loads produces them, and the built-in conversions *)
(* _build_result applies to them: float(), int(), str(), truth value       *)
(***************************************************************************)
None == [t |-> "none"]
PyBool(b) == [t |-> "bool", b |-> b]
PyInt(n) == [t |-> "int", n |-> n]
\* a finite float, h hundredths: 35.0 is PyFloat(3500), 19.99 is PyFloat(1999)
PyFloat(h) == [t |-> "float", k |-> "fin", h |-> h]
\* what json.loads gives for 1e999 or Infinity, and for NaN
PyInf == [t |-> "float", k |-> "inf", h |-> 0]
PyNan == [t |-> "float", k |-> "nan", h |-> 0]
PyStr(s) == [t |-> "str", s |-> s]
PyList(items) == [t |-> "list", items |-> items]
\* a dict: its <<key, value>> pairs in insertion order, keys distinct
PyDict(items) == [t |-> "dict", items |-> items]

\* the outcome of an expression: a value, or the exception it raises
Ok(v) == [ok |-> TRUE, v |-> v, exc |-> "none"]
Raise(e) == [ok |-> FALSE, v |-> None, exc |-> e]

HasKey(d, key) == \E i \in 1..Len(d.items) : d.items[i][1] = key

\* dict.get(key, default)
get_default(d, key, default) ==
    IF HasKey(d, key)
    THEN d.items[CHOOSE i \in 1..Len(d.items) : d.items[i][1] = key][2]
    ELSE default

\* dict.get(key)
get(d, key) == get_default(d, key, None)

\* bool(value)
Truthy(v) ==
    CASE v.t = "none" -> FALSE
      [] v.t = "bool" -> v.b
      [] v.t = "int" -> v.n # 0
      [] v.t = "float" -> v.k # "fin" \/ v.h # 0
      [] v.t = "str" -> v.s # <<>>
      [] v.t = "list" -> v.items # <<>>
      [] v.t = "dict" -> v.items # <<>>

\* value or default
py_or(v, default) == IF Truthy(v) THEN v ELSE default

\* the digits before and after the decimal point of an unsigned numeral
IntPart(u) == IF Find(u, ".") = 0 THEN u ELSE SubSeq(u, 1, Find(u, ".") - 1)
FracPart(u) == IF Find(u, ".") = 0 THEN <<>> ELSE SubSeq(u, Find(u, ".") + 1, Len(u))

\* float(text): surrounding whitespace, a sign, digits with an optional point,
\* or inf / nan; anything else is a ValueError
float_of_text(s) ==
    LET magnitude(ip, fp) ==
            DigitsVal(ip) * 100 + DigitsVal(SliceTo(fp \o <<"0", "0">>, 2))
        numeral(ip, fp, neg) ==
            IF AllDigits(ip) /\ AllDigits(fp) /\ (ip # <<>> \/ fp # <<>>)
            THEN Ok(PyFloat(IF neg THEN -magnitude(ip, fp) ELSE magnitude(ip, fp)))
            ELSE Raise("ValueError")
        unsigned(u, neg) ==
            IF u = Lit.inf_ THEN Ok(PyInf)
            ELSE IF u = Lit.nan_ THEN Ok(PyNan)
            ELSE numeral(IntPart(u), FracPart(u), neg)
        signed(t) ==
            IF t # <<>> /\ Head(t) \in {"-", "+"}
            THEN unsigned(Tail(t), Head(t) = "-")
            ELSE unsigned(t, FALSE)
    IN  signed(strip(s))

\* float(value)
py_float(v) ==
    CASE v.t = "float" -> Ok(v)
      [] v.t = "int" -> Ok(PyFloat(v.n * 100))
      [] v.t = "bool" -> Ok(PyFloat(IF v.b THEN 100 ELSE 0))
      [] v.t = "str" -> float_of_text(v.s)
      [] OTHER -> Raise("TypeError")

\* round(f): the nearest whole number, halves away from zero
py_int_nearest(f) ==
    CASE f.k = "inf" -> Raise("OverflowError")
      [] f.k = "nan" -> Raise("ValueError")
      [] OTHER -> Ok(IF f.h < 0 THEN -((-f.h + 50) \div 100) ELSE (f.h + 50) \div 100)

\* int(f) for a float f: truncation toward zero
py_int(f) ==
    CASE f.k = "inf" -> Raise("OverflowError")
      [] f.k = "nan" -> Raise("ValueError")
      [] OTHER -> Ok(IF f.h < 0 THEN -((-f.h) \div 100) ELSE f.h \div 100)

\* repr(f) of a float
FloatStr(f) ==
    LET frac(d) ==
            IF d % 10 = 0 THEN <<Digits[(d \div 10) + 1]>>
            ELSE <<Digits[(d \div 10) + 1], Digits[(d % 10) + 1]>>
        unsigned(a) == NatStr(a \div 100) \o <<".">> \o frac(a % 100)
    IN  CASE f.k = "inf" -> Lit.inf_
          [] f.k = "nan" -> Lit.nan_
          [] OTHER -> IF f.h < 0 THEN <<"-">> \o unsigned(-f.h) ELSE unsigned(f.h)

RECURSIVE py_str(_)
RECURSIVE py_repr(_)
RECURSIVE JoinRepr(_)
RECURSIVE JoinPairs(_)

\* ", ".join(repr(x) for x in items)
JoinRepr(items) ==
    IF items = <<>> THEN <<>>
    ELSE IF Len(items) = 1 THEN py_repr(items[1])
    ELSE py_repr(items[1]) \o <<",", " ">> \o JoinRepr(Tail(items))

\* ", ".join(repr(k) + ": " + repr(v) for k, v in items)
JoinPairs(items) ==
    LET one(p) == <<"'">> \o p[1] \o <<"'", ":", " ">> \o py_repr(p[2])
    IN  IF items = <<>> THEN <<>>
        ELSE IF Len(items) = 1 THEN one(items[1])
        ELSE one(items[1]) \o <<",", " ">> \o JoinPairs(Tail(items))

\* repr(value): a str in quotes, anything else as str() gives it
py_repr(v) == IF v.t = "str" THEN <<"'">> \o v.s \o <<"'">> ELSE py_str(v)

\* str(value)
py_str(v) ==
    CASE v.t = "none" -> Lit.none_
      [] v.t = "bool" -> (IF v.b THEN Lit.true_ ELSE Lit.false_)
      [] v.t = "int" -> IntStr(v.n)
      [] v.t = "float" -> FloatStr(v)
      [] v.t = "str" -> v.s
      [] v.t = "list" -> <<"[">> \o JoinRepr(v.items) \o <<"]">>
      [] v.t = "dict" -> <<"{">> \o JoinPairs(v.items) \o <<"}">>

(***************************************************************************)
(* ListingGenerator._build_result: coercion of the model's JSON object     *)
(***************************************************************************)
\* the default lower bound, in euros
DefaultMinEur == 20
\* the fallback draft's range, in euros
MockMinEur == 20
MockMaxEur == 35
\* listing_title[:80]
TitleLimit == 80
\* euros to minor units
CentsPerEuro == 100
\* confidence_score defaults: 0.6 on the live path, 0.4 on the fallback
DefaultConfidence == PyFloat(60)
MockConfidence == PyFloat(40)

\* isinstance(exc, cls) for the exception classes the code names
IsInstance(exc, cls) ==
    \/ exc = cls
    \/ cls = "Exception"
    \/ cls = "ValueError" /\ exc = "JSONDecodeError"

\* to_int as int(value) would be for text: a numeric string is not converted
to_int_numbers_only(value, default) ==
    LET convert(f) == IF f.ok THEN py_int(f.v) ELSE f
        guarded(r) == IF ~r.ok /\ r.exc # "OverflowError" THEN Ok(default) ELSE r
    IN  IF value.t = "str" THEN Ok(default) ELSE guarded(convert(py_float(value)))

\* to_int: int(float(value)), the default on TypeError or ValueError
to_int(value, default) ==
    LET convert(f) == IF f.ok THEN py_int(f.v) ELSE f
        guarded(r) ==
            IF ~r.ok /\ (IsInstance(r.exc, "TypeError") \/ IsInstance(r.exc, "ValueError"))
            THEN Ok(default)
            ELSE r
    IN  guarded(convert(py_float(value)))

\* [str(item) for item in items]: nothing stripped, nothing discarded
items_as_given(items) == [i \in 1..Len(items) |-> py_str(items[i])]

RECURSIVE StrippedItems(_)
\* [str(item).strip() for item in items if str(item).strip()]
StrippedItems(items) ==
    LET keep(s) == IF s # <<>> THEN <<s>> ELSE <<>>
    IN  IF items = <<>> THEN <<>>
        ELSE keep(strip(py_str(Head(items)))) \o StrippedItems(Tail(items))

\* to_str_list
to_str_list(value) ==
    IF value.t = "list" THEN StrippedItems(value.items) ELSE <<>>

\* min_val = to_int(lo, 0); max_val = to_int(hi, min_val)
MinThenMax(lo, hi) ==
    LET pair(mn, mx) == IF ~mx.ok THEN mx ELSE Ok(<<mn.v, mx.v>>)
        after(mn) == IF ~mn.ok THEN mn ELSE pair(mn, to_int(hi, mn.v))
    IN  after(to_int(lo, 0))

\* min_val = max_val = to_int(price_range, 0)
BothFrom(value) ==
    LET both(n) == IF ~n.ok THEN n ELSE Ok(<<n.v, n.v>>)
    IN  both(to_int(value, 0))

\* the range read from an object only: a string or a bare number is ignored
read_range_objects_only(data) ==
    LET by_type(price_range) ==
            IF price_range.t = "dict"
            THEN MinThenMax(get(price_range, Key.min), get(price_range, Key.max))
            ELSE Ok(<<0, 0>>)
    IN  by_type(get_default(data, Key.estimated_value_eur, PyDict(<<>>)))

\* min_val and max_val as read from estimated_value_eur, in euros
read_range(data) ==
    LET halves(parts) == MinThenMax(PyStr(parts[1]), PyStr(parts[2]))
        by_type(price_range) ==
            CASE price_range.t = "dict" ->
                    MinThenMax(get(price_range, Key.min), get(price_range, Key.max))
              [] price_range.t = "str" ->
                    IF Find(price_range.s, "-") # 0
                    THEN halves(split1(price_range.s, "-"))
                    ELSE BothFrom(price_range)
              [] price_range.t \in {"int", "float", "bool"} -> BothFrom(price_range)
              [] OTHER -> Ok(<<0, 0>>)
    IN  by_type(get_default(data, Key.estimated_value_eur, PyDict(<<>>)))

\* the range left as read: no default for min_val, max_val not raised to it
repair_range_skipped(min_val, max_val) == <<min_val, max_val>>

\* a repair that swaps the bounds of an inverted range
repair_range_swapping(min_val, max_val) ==
    LET ordered(lo) == IF max_val < lo THEN <<max_val, lo>> ELSE <<lo, max_val>>
    IN  ordered(IF min_val <= 0 THEN DefaultMinEur ELSE min_val)

\* if min_val <= 0: min_val = 20; if max_val < min_val: max_val = min_val
repair_range(min_val, max_val) ==
    LET raise_max(lo) == <<lo, IF max_val < lo THEN lo ELSE max_val>>
    IN  raise_max(IF min_val <= 0 THEN DefaultMinEur ELSE min_val)

\* int((min_val + max_val) / 2)
midpoint(min_val, max_val) == (min_val + max_val) \div 2

\* recommended_price in euros: the model's value, the midpoint when it is <= 0
recommend(data, min_val, max_val) ==
    LET choose(p) ==
            IF ~p.ok THEN p
            ELSE Ok(IF p.v <= 0 THEN midpoint(min_val, max_val) ELSE p.v)
    IN  choose(to_int(get(data, Key.price_recommendation_eur), 0))

\* str(data.get(key)): the default is never substituted
str_without_default(data, key, default) == py_str(get(data, key))

\* str(data.get(key) or default)
str_or(data, key, default) == py_str(py_or(get(data, key), PyStr(default)))

\* the title left at its full length
truncate_title_skipped(title) == title

\* listing_title[:80]
truncate_title(title) == SliceTo(title, TitleLimit)

\* the description synthesized when the model gives none
default_description(product) ==
    product.name \o Txt.in \o product.condition \o Txt.em_zustand
        \o Txt.kategorie \o product.category \o Txt.newline
        \o Txt.versand_bullet

\* float(data.get("confidence_score") or 0.6)
read_confidence(data) == py_float(py_or(get(data, Key.confidence_score), DefaultConfidence))

\* ProductInfo(...)
build_product(data) ==
    LET brand_or_none(brand) == IF brand # <<>> THEN PyStr(brand) ELSE None
    IN  [name |-> str_or(data, Key.product_name, Txt.unknown_product),
         category |-> str_or(data, Key.category, Txt.sonstiges),
         condition |-> str_or(data, Key.condition, Txt.gebraucht),
         brand |-> brand_or_none(str_or(data, Key.brand, <<>>)),
         features |-> to_str_list(get(data, Key.features))]

_build_result(data, source) ==
    LET description(product, given) ==
            IF given = <<>> THEN default_description(product) ELSE given
        draft(rng, rp, product, conf) ==
            IF ~conf.ok THEN conf
            ELSE Ok([product |-> product,
                     estimated_value_range |->
                         <<rng[1] * CentsPerEuro, rng[2] * CentsPerEuro>>,
                     suggested_keywords |-> to_str_list(get(data, Key.suggested_keywords)),
                     condition_details |-> str_or(data, Key.condition_details, <<>>),
                     confidence_score |-> conf.v,
                     listing_title |->
                         truncate_title(strip(str_or(data, Key.listing_title, product.name))),
                     listing_description |->
                         description(product, strip(str_or(data, Key.listing_description, <<>>))),
                     recommended_price |-> rp.v * CentsPerEuro,
                     shipping_suggestion |-> str_or(data, Key.shipping_suggestion, Txt.versand),
                     source |-> source])
        priced(rng, rp) ==
            IF ~rp.ok THEN rp
            ELSE draft(rng, rp, build_product(data), read_confidence(data))
        ranged(rng) == priced(rng, recommend(data, rng[1], rng[2]))
        coerce(rr) == IF ~rr.ok THEN rr ELSE ranged(repair_range(rr.v[1], rr.v[2]))
    IN  IF data.t # "dict" THEN Raise("AttributeError") ELSE coerce(read_range(data))

(***************************************************************************)
(* ListingGenerator._mock_result: the deterministic fallback draft         *)
(***************************************************************************)
\* filename.rsplit(".", 1)[0].replace("_", " ").strip() or "Produkt"
mock_name(filename) ==
    LET or_default(n) == IF n # <<>> THEN n ELSE Txt.produkt
    IN  IF Truthy(filename)
        THEN or_default(strip(replace(rsplit1_head(filename.s, "."), "_", " ")))
        ELSE Txt.produkt

\* int(((min_val + max_val) / 2) * 100)
mock_price(min_val, max_val) == ((min_val + max_val) * CentsPerEuro) \div 2

_mock_result(filename, note) ==
    LET draft(product) ==
            [product |-> product,
             estimated_value_range |->
                 <<MockMinEur * CentsPerEuro, MockMaxEur * CentsPerEuro>>,
             suggested_keywords |-> <<Txt.kw_gebraucht, Txt.kw_top, Txt.kw_versand>>,
             condition_details |-> note,
             confidence_score |-> MockConfidence,
             listing_title |->
                 truncate_title(strip(product.name \o Txt.dash \o product.condition)),
             listing_description |->
                 product.name \o Txt.in \o product.condition \o Txt.em_zustand
                     \o Txt.lieferung \o Txt.privat,
             recommended_price |-> mock_price(MockMinEur, MockMaxEur),
             shipping_suggestion |-> Txt.dhlabholung,
             source |-> "mock"]
    IN  CHOOSE d \in {draft([name |-> n,
                               category |-> Txt.sonstiges,
                               condition |-> Txt.gebraucht,
                               brand |-> None,
                               features |-> <<Txt.funktionsfaehig, Txt.gepflegt, Txt.sofort>>]) :
                            n \in {mock_name(filename)}} : TRUE

(***************************************************************************)
(* ListingGenerator._parse_response                                        *)
(*                                                                         *)
(* The model's content is text.  The serialisation of a JSON value inside  *)
(* it is one opaque element: "<members>" stands for the members between    *)
(* the braces of the serialised object doc, "<value>" for a whole          *)
(* serialised value doc that is not an object.  Braces, prose and          *)
(* whitespace are characters.                                              *)
(***************************************************************************)
ContentStr(text, doc) == [t |-> "str", s |-> text, doc |-> doc]

ObjectText == <<"{", "<members>", "}">>

\* response[key] for a str key
subscript_key(v, key) ==
    IF v.t = "dict"
    THEN IF HasKey(v, key) THEN Ok(get(v, key)) ELSE Raise("KeyError")
    ELSE Raise("TypeError")

\* response[0]
subscript_0(v) ==
    CASE v.t = "list" -> (IF v.items # <<>> THEN Ok(v.items[1]) ELSE Raise("IndexError"))
      [] v.t = "str" -> (IF v.s # <<>> THEN Ok(PyStr(<<v.s[1]>>)) ELSE Raise("IndexError"))
      [] v.t = "dict" -> Raise("KeyError")
      [] OTHER -> Raise("TypeError")

\* response["choices"][0]["message"]["content"]
read_content(response) ==
    LET content(c) == IF c.ok THEN subscript_key(c.v, Key.content) ELSE c
        message(b) == content(IF b.ok THEN subscript_key(b.v, Key.message) ELSE b)
        first(a) == message(IF a.ok THEN subscript_0(a.v) ELSE a)
    IN  first(subscript_key(response, Key.choices))

\* json.loads(content)
json_loads(content) ==
    LET document(t) ==
            CASE t = ObjectText -> Ok(content.doc)
              [] t = <<"{", "}">> -> Ok(PyDict(<<>>))
              [] t = <<"<value>">> -> Ok(content.doc)
              [] OTHER -> Raise("JSONDecodeError")
    IN  IF content.t # "str" THEN Raise("TypeError") ELSE document(strip(content.s))

\* re.search(r"\{.*\}", content, re.S): from the first "{" to the last "}"
search_braces(text) ==
    IF Find(text, "{") # 0 /\ RFind(text, "}") > Find(text, "{")
    THEN <<SubSeq(text, Find(text, "{"), RFind(text, "}"))>>
    ELSE <<>>

_parse_response(response) ==
    LET matched(content, match) ==
            IF match = <<>> THEN Raise("ValueError")
            ELSE json_loads(ContentStr(match[1], content.doc))
        loaded(content, j) ==
            IF j.ok \/ ~IsInstance(j.exc, "JSONDecodeError") THEN j
            ELSE matched(content, search_braces(content.s))
        parse(c) ==
            IF ~c.ok
            THEN (IF \E cls \in {"KeyError", "IndexError", "TypeError"} :
                        IsInstance(c.exc, cls)
                  THEN Raise("ValueError") ELSE c)
            ELSE loaded(c.v, json_loads(c.v))
    IN  parse(read_content(response))

(***************************************************************************)
(* ListingGenerator._call_openai_vision: one POST, its outcome `reply`     *)
(***************************************************************************)
HttpOK == 200

\* the call without its status check: any response body is returned
call_ignoring_status(reply) ==
    IF reply.kind = "error" THEN Raise(reply.exc)
    ELSE IF ~reply.is_json THEN Raise("ContentTypeError")
    ELSE Ok(reply.body)

_call_openai_vision(reply) ==
    IF reply.kind = "error" THEN Raise(reply.exc)
    ELSE IF reply.status # HttpOK THEN Raise("ValueError")
    ELSE IF ~reply.is_json THEN Raise("ContentTypeError")
    ELSE Ok(reply.body)

\* the try block of analyze_product_image after the call returns
live_path(reply) ==
    LET build(d) == IF d.ok THEN _build_result(d.v, "openai") ELSE d
        parse(r) == build(IF r.ok THEN _parse_response(r.v) ELSE r)
    IN  parse(_call_openai_vision(reply))

\* a handler for ValueError alone
handler_catches_value_error(exc) == IsInstance(exc, "ValueError")

\* except Exception
handler_catches(exc) == IsInstance(exc, "Exception")

(***************************************************************************)
(* Inputs: what the model may reply, and what a request may carry          *)
(***************************************************************************)
\* amounts the model names range over -1 .. MaxEur euros
MaxEur == 3
\* titles and names are up to TitleLimit + ExtraTitle characters long
ExtraTitle == 2

\* a key the model left out of its object
Absent == [t |-> "absent"]

Without(d, key) == PyDict(SelectSeq(d.items, LAMBDA p : p[1] # key))

\* the object d with d[key] = v, or without key when v is Absent
Put(d, key, v) ==
    IF v.t = "absent" THEN Without(d, key)
    ELSE IF HasKey(d, key)
    THEN PyDict([i \in 1..Len(d.items) |->
                    IF d.items[i][1] = key THEN <<key, v>> ELSE d.items[i]])
    ELSE PyDict(Append(d.items, <<key, v>>))

MinMax(a, b) == Put(Put(PyDict(<<>>), Key.min, a), Key.max, b)

\* the model reply of the end-to-end scenario
P7Doc ==
    PyDict(<< <<Key.product_name, PyStr(Sample.lautsprecher)>>,
              <<Key.category, PyStr(Sample.elektronik)>>,
              <<Key.condition, PyStr(Sample.gut)>>,
              <<Key.brand, PyStr(Sample.sony)>>,
              <<Key.features, PyList(<<PyStr(Sample.bluetooth)>>)>>,
              <<Key.estimated_value_eur, MinMax(PyInt(20), PyInt(40))>>,
              <<Key.confidence_score, PyFloat(80)>>,
              <<Key.suggested_keywords, PyList(<<PyStr(Sample.kw_lautsprecher), PyStr(Sample.kw_sony)>>)>>,
              <<Key.listing_title, PyStr(Sample.p7_title)>>,
              <<Key.listing_description, PyStr(Sample.p7_description)>>,
              <<Key.price_recommendation_eur, PyInt(30)>>,
              <<Key.shipping_suggestion, PyStr(Sample.dhlpaket)>> >>)

\* {"estimated_value_eur": {"min": "20", "max": 35.0}, "price_recommendation_eur": null}
P4Doc ==
    PyDict(<< <<Key.estimated_value_eur, MinMax(PyStr(<<"2", "0">>), PyFloat(3500))>>,
              <<Key.price_recommendation_eur, None>> >>)

\* whole-euro amounts the model may give as JSON integers
WholeAmounts == {PyInt(k) : k \in -1..MaxEur}

\* what the model may give as min or max of estimated_value_eur
BoundValues ==
    WholeAmounts
        \cup {PyFloat(250), PyFloat(199), PyStr(<<"2">>)}
        \cup {Absent, None, PyInf, PyStr(Sample.abc)}

RangeValues ==
    {MinMax(a, b) : a \in BoundValues, b \in BoundValues}
        \cup {MinMax(PyInt(20), PyInt(40)), MinMax(PyStr(<<"2", "0">>), PyFloat(3500))}
        \cup {Absent, None, PyInt(2), PyInt(0), PyFloat(199), PyStr(<<"3">>),
              PyStr(Sample.abc), PyInf, PyNan, PyBool(TRUE),
              PyList(<<PyInt(20), PyInt(40)>>),
              PyStr(<<"1", "5", "-", "2", "5">>), PyStr(<<"2", "5", "-", "1", "5">>),
              PyStr(<<"-", "5">>), PyStr(<<"3", "-">>)}

\* what the model may give as price_recommendation_eur
PriceValues ==
    WholeAmounts
        \cup {PyInt(30), PyInt(100), PyFloat(50), PyFloat(199), PyFloat(-50), PyStr(<<"2">>),
              PyStr(<<"1", ".", "9", "9">>), PyStr(<<" ", "3", " ">>)}
        \cup {Absent, None, PyInf, PyNan, PyStr(Sample.abc), PyStr(<<>>),
              PyList(<<PyInt(2)>>), PyBool(TRUE)}

DocsRangePrice ==
    {Put(Put(P7Doc, Key.estimated_value_eur, r), Key.price_recommendation_eur, p) :
        r \in RangeValues, p \in PriceValues}

\* a value of the wrong type where a string is expected
WrongTypes ==
    {None, PyInt(0), PyInt(12345), PyFloat(1999), PyBool(FALSE), PyList(<<>>),
     PyList(<<PyStr(Sample.sony), None>>), PyDict(<<>>), MinMax(PyInt(20), PyInt(40))}

TitleValues ==
    {Absent, PyStr(<<>>), PyStr(<<" ">>), PyStr(Sample.p7_title),
     PyStr(<<" ">> \o Rep("t", TitleLimit + ExtraTitle) \o <<" ">>)}
        \cup {PyStr(Rep("t", n)) : n \in (TitleLimit - 1)..(TitleLimit + ExtraTitle)}
        \cup WrongTypes

NameValues ==
    {Absent, PyStr(<<>>), PyStr(<<" ">>), PyStr(Sample.lautsprecher),
     PyStr(Rep("n", TitleLimit + ExtraTitle))}
        \cup WrongTypes

DocsTitle ==
    {Put(Put(P7Doc, Key.listing_title, t), Key.product_name, n) :
        t \in TitleValues, n \in NameValues}

ConfidenceValues ==
    {Absent, None, PyStr(Sample.high), PyStr(<<"0", ".", "9">>), PyStr(<<>>), PyStr(Lit.inf_),
     PyInt(0), PyInt(1), PyInt(5), PyInt(-1), PyInt(95), PyFloat(80), PyFloat(0),
     PyInf, PyNan, PyBool(TRUE), PyList(<<>>), PyList(<<PyFloat(80)>>),
     PyDict(<<>>), MinMax(PyInt(0), PyInt(1))}

DocsConfidence == {Put(P7Doc, Key.confidence_score, c) : c \in ConfidenceValues}

StringKeys ==
    {Key.category, Key.condition, Key.brand, Key.condition_details, Key.listing_description, Key.shipping_suggestion}

DocsStrings ==
    {Put(P7Doc, k, v) :
        k \in StringKeys, v \in {Absent, PyStr(<<>>), PyStr(<<" ">>)} \cup WrongTypes}

ListValues ==
    {Absent, None, PyStr(Sample.sony), PyInt(3), MinMax(PyInt(1), PyInt(2)), PyList(<<>>),
     PyList(<<PyStr(<<" ", "a", " ">>), PyStr(<<" ">>), PyInt(3), PyStr(<<>>),
              PyStr(<<"a">>), None>>)}

DocsLists ==
    {Put(Put(P7Doc, Key.features, f), Key.suggested_keywords, k) : f \in ListValues, k \in ListValues}

\* the JSON objects the model may send
Docs ==
    {P7Doc, P4Doc} \cup DocsRangePrice \cup DocsTitle \cup DocsConfidence
        \cup DocsStrings \cup DocsLists

\* a JSON document that is not an object
NonObjects == {None, PyInt(42), PyStr(Sample.sony), PyList(<<P7Doc>>), PyList(<<>>), PyBool(TRUE)}

\* the body of a well-formed completion response carrying `content`
Envelope(content) ==
    PyDict(<< <<Key.choices,
                PyList(<< PyDict(<< <<Key.message,
                                      PyDict(<< <<Key.content, content>> >>)>> >>) >>)>> >>)

\* response bodies that are JSON but no completion envelope
BadEnvelopes ==
    {PyDict(<<>>),
     PyDict(<< <<Key.choices, PyList(<<>>)>> >>),
     PyDict(<< <<Key.choices, PyList(<<None>>)>> >>),
     PyDict(<< <<Key.choices, PyList(<<PyDict(<< <<Key.message, PyDict(<<>>)>> >>)>>)>> >>),
     PyDict(<< <<Key.choices, PyStr(Sample.abc)>> >>),
     PyList(<<>>),
     None}

NoReply ==
    [kind |-> "none", exc |-> "none", status |-> 0, is_json |-> FALSE,
     body |-> None, shape |-> "none", doc |-> None]

ErrorReply(exc) == [NoReply EXCEPT !.kind = "error", !.exc = exc, !.shape = "error"]

\* a status other than 200, with an error page or with a JSON body
StatusReply(status, is_json, body) ==
    [NoReply EXCEPT !.kind = "response", !.status = status, !.shape = "status",
                    !.is_json = is_json, !.body = body]

NotJsonReply ==
    [NoReply EXCEPT !.kind = "response", !.status = HttpOK, !.shape = "not_json"]

BodyReply(shape, body, doc) ==
    [NoReply EXCEPT !.kind = "response", !.status = HttpOK, !.is_json = TRUE,
                    !.body = body, !.shape = shape, !.doc = doc]

TextReply(shape, text, doc) == BodyReply(shape, Envelope(ContentStr(text, doc)), doc)

\* content texts in which no JSON document can be found
TextsWithoutJson ==
    { <<"empty", <<>> >>,
      <<"prose", Sample.cannot>>,
      <<"truncated", <<"{", "<members>">> >>,
      <<"braces_in_prose", Sample.use_placeholders>>,
      <<"object_then_brace", ObjectText \o Sample.hope \o <<"}">> >>,
      <<"two_objects", ObjectText \o <<" ">> \o ObjectText>> }

\* content texts that hold one JSON object, bare or wrapped
TextsWithObject ==
    { <<"object", ObjectText>>,
      <<"padded", <<"\n", " ">> \o ObjectText \o <<"\n">> >>,
      <<"wrapped", Sample.here_is \o ObjectText \o Sample.hope>>,
      <<"fenced", Sample.fence_open \o ObjectText \o Sample.fence_close>> }

AnswerReplies ==
    {NotJsonReply}
        \cup {BodyReply("envelope", b, None) : b \in BadEnvelopes}
        \cup {BodyReply("null_content", Envelope(None), None)}
        \cup {TextReply(x[1], x[2], P7Doc) : x \in TextsWithoutJson}
        \cup {TextReply("empty_object", <<"{", "}">>, PyDict(<<>>))}
        \cup {TextReply("value", <<"<value>">>, v) : v \in NonObjects}
        \cup {TextReply("object", ObjectText, d) : d \in Docs}
        \cup {TextReply(x[1], x[2], d) : x \in TextsWithObject, d \in {P7Doc, P4Doc}}

TransportErrors == {"ClientConnectorError", "TimeoutError"}

ErrorStatuses == {201, 400, 401, 429, 500}

\* what the endpoint may send with a status other than 200
RefusalReplies ==
    {StatusReply(status, FALSE, None) : status \in ErrorStatuses}
        \cup {StatusReply(status, TRUE, Envelope(ContentStr(ObjectText, P7Doc))) :
                status \in ErrorStatuses}

ApiKeys == {None, PyStr(<<>>), PyStr(Sample.sk)}

\* image bytes: what PIL's Image.open would make of them
decodable(image) == image \in {"jpeg_800x600", "png_rgba"}

\* the uploads a request may carry: <<image bytes, filename>>
Uploads ==
    { <<"jpeg_800x600", PyStr(Sample.file_speaker)>>,
      <<"png_rgba", None>>,
      <<"not_an_image", PyStr(Sample.file_only_ext)>>,
      <<"not_an_image", PyStr(Sample.file_speaker)>>,
      <<"empty", PyStr(<<>>)>>,
      <<"jpeg_800x600", PyStr(Sample.file_underscores)>>,
      <<"png_rgba", PyStr(Rep("f", TitleLimit + ExtraTitle) \o Sample.file_only_ext)>> }

(***************************************************************************)
(* One analysis request on the module's ListingGenerator                   *)
(***************************************************************************)
VARIABLES
    api_key,      \* listing_generator.api_key
    pc,           \* "idle", "awaiting" (suspended in the POST), "returned", "raised"
    image_data,   \* the request's image bytes
    filename,     \* the request's filename
    calls,        \* POSTs sent to the completion endpoint in this run
    reply,        \* what the endpoint answered
    built,        \* ListingDraft objects constructed in this run
    result,       \* the ListingDraft returned
    settings,     \* listing_generator.base_url and .model
    requests,     \* the /analyze requests in progress on the event loop, by slot
    wire,         \* per slot: the POSTs its request sent and what the endpoint answered
    svc,          \* one call of the service create_vision_service / create_content_service built
    jobs,         \* the Job rows of main_optimized as committed, by job id
    pipeline,     \* per job: where process_product_complete stands
    polled        \* the last response of GET /api/status/{job_id}

\* the variables of the components by specification
request_vars == <<pc, image_data, filename, calls, reply, built, result>>
concurrent_vars == <<settings, requests, wire>>
service_vars == <<svc>>
job_vars == <<jobs, pipeline, polled>>
outside_request == <<concurrent_vars, service_vars, job_vars>>
outside_concurrent == <<request_vars, service_vars, job_vars>>
outside_services == <<request_vars, concurrent_vars, job_vars>>
outside_jobs == <<request_vars, concurrent_vars, service_vars>>

\* the components a specification does not exercise stay as constructed
ConcurrentParked == settings = None /\ requests = <<>> /\ wire = <<>>
ServicesParked == svc = None
JobsParked == jobs = <<>> /\ pipeline = <<>> /\ polled = None
RequestParked ==
    /\ pc = "idle"
    /\ image_data = "empty"
    /\ filename = None
    /\ calls = 0
    /\ reply = NoReply
    /\ built = 0
    /\ result = [source |-> "none"]

vars == <<api_key, request_vars, concurrent_vars, service_vars, job_vars>>

NoDraft == [source |-> "none"]

Init ==
    /\ api_key \in ApiKeys
    /\ pc = "idle"
    /\ image_data = "empty"
    /\ filename = None
    /\ calls = 0
    /\ reply = NoReply
    /\ built = 0
    /\ result = NoDraft
    /\ ConcurrentParked /\ ServicesParked /\ JobsParked

\* POST /analyze reaches analyze_product_image: without a key the fallback
\* draft is returned at once, with one the image is encoded and posted
Analyze(image, fname) ==
    /\ pc = "idle"
    /\ image_data' = image
    /\ filename' = fname
    /\ reply' = NoReply
    /\ IF ~Truthy(api_key)
       THEN /\ result' = _mock_result(fname, NoteDemo)
            /\ built' = 1
            /\ calls' = 0
            /\ pc' = "returned"
       ELSE /\ result' = NoDraft
            /\ built' = 0
            /\ calls' = 1
            /\ pc' = "awaiting"
    /\ UNCHANGED <<api_key, outside_request>>

\* an orchestrator that sends the request again when a stage failed, twice at
\* most, before it falls back
Complete_retrying(r) ==
    /\ pc = "awaiting"
    /\ reply' = r
    /\ LET finish(out) ==
               IF out.ok
               THEN /\ result' = out.v
                    /\ built' = built + 1
                    /\ calls' = calls
                    /\ pc' = "returned"
               ELSE IF calls <= 2
               THEN /\ result' = NoDraft
                    /\ built' = built
                    /\ calls' = calls + 1
                    /\ pc' = "awaiting"
               ELSE /\ result' = _mock_result(filename, NoteUnreachable)
                    /\ built' = built + 1
                    /\ calls' = calls
                    /\ pc' = "returned"
       IN  finish(live_path(r))
    /\ UNCHANGED <<api_key, image_data, filename, outside_request>>

\* the POST completes with outcome r: the rest of the try block runs, and the
\* except clause on any exception
Complete(r) ==
    /\ pc = "awaiting"
    /\ reply' = r
    /\ LET finish(out) ==
               IF out.ok
               THEN /\ result' = out.v
                    /\ built' = built + 1
                    /\ pc' = "returned"
               ELSE IF handler_catches(out.exc)
               THEN /\ result' = _mock_result(filename, NoteUnreachable)
                    /\ built' = built + 1
                    /\ pc' = "returned"
               ELSE /\ result' = NoDraft
                    /\ built' = built
                    /\ pc' = "raised"
       IN  finish(live_path(r))
    /\ UNCHANGED <<api_key, image_data, filename, calls, outside_request>>

\* the connection fails or the 40 s timeout expires
HttpFails == \E exc \in TransportErrors : Complete(ErrorReply(exc))

\* the endpoint answers with a status other than 200
HttpRefuses == \E r \in RefusalReplies : Complete(r)

\* the endpoint answers 200
HttpAnswers == \E r \in AnswerReplies : Complete(r)

\* the route handler serialises the draft (or the error) and responds
Respond ==
    /\ pc \in {"returned", "raised"}
    /\ pc' = "idle"
    /\ image_data' = "empty"
    /\ filename' = None
    /\ calls' = 0
    /\ reply' = NoReply
    /\ built' = 0
    /\ result' = NoDraft
    /\ UNCHANGED <<api_key, outside_request>>

Next ==
    \/ \E up \in Uploads : Analyze(up[1], up[2])
    \/ HttpFails
    \/ HttpRefuses
    \/ HttpAnswers
    \/ Respond

Spec == Init /\ [][Next]_vars

(***************************************************************************)
(* Properties of the draft a request returns                               *)
(***************************************************************************)
Returned == pc = "returned"
Live == Returned /\ result.source = "openai"
Mock == Returned /\ result.source = "mock"
low == result.estimated_value_range[1]
high == result.estimated_value_range[2]

\* the fields of a ListingDraft and of its ProductInfo
DraftFields ==
    {"product", "estimated_value_range", "suggested_keywords", "condition_details",
     "confidence_score", "listing_title", "listing_description", "recommended_price",
     "shipping_suggestion", "source"}
ProductFields == {"name", "category", "condition", "brand", "features"}

IsListingDraft(d) ==
    /\ DOMAIN d = DraftFields
    /\ DOMAIN d.product = ProductFields
    /\ d.source \in {"openai", "mock"}
    /\ d.estimated_value_range \in Int \X Int
    /\ d.recommended_price \in Int

\* the reply was HTTP 200 with a completion whose content holds one JSON object,
\* bare, padded with whitespace, wrapped in prose or fenced
ObjectShapes == {"object", "padded", "wrapped", "fenced", "empty_object"}
ObjectReplied ==
    reply.kind = "response" /\ reply.status = 200 /\ reply.shape \in ObjectShapes

\* what the model's object gives for a key (Absent when it leaves the key out)
Given(key) == get_default(reply.doc, key, Absent)
GivenRange == Given(Key.estimated_value_eur)
GivenPrice == Given(Key.price_recommendation_eur)

\* v is a JSON number or a numeric string; Hundredths(v) is its amount
IsNumeric(v) ==
    \/ v.t = "int"
    \/ v.t = "float" /\ v.k = "fin"
    \/ v.t = "str" /\ float_of_text(v.s).ok /\ float_of_text(v.s).v.k = "fin"
Hundredths(v) ==
    CASE v.t = "int" -> v.n * 100
      [] v.t = "float" -> v.h
      [] v.t = "str" -> float_of_text(v.s).v.h
IsWholeEuros(v) == IsNumeric(v) /\ Hundredths(v) % 100 = 0

\* C1: analyze_product_image never raises: whatever the image bytes, the
\* filename, the credentials and the outcome of the model call, the run ends by
\* returning a ListingDraft.
C1_NeverRaises ==
    /\ pc \in {"idle", "awaiting", "returned"}
    /\ Returned => IsListingDraft(result)

\* a run with a key that got a JSON document that is no object for an image
\* that is none, and returned the fallback draft
C1_Witness ==
    /\ Mock
    /\ Truthy(api_key)
    /\ reply.shape = "value"
    /\ ~decodable(image_data)

\* C2: every returned draft has 0 < low <= high, on the live and on the
\* fallback path, whatever the model gave for estimated_value_eur.
C2_RangeInvariant == Returned => 0 < low /\ low <= high

\* a live draft whose model gave max below min, repaired to low = high
C2_Witness ==
    /\ Live
    /\ GivenRange = MinMax(PyInt(3), PyInt(1))
    /\ result.estimated_value_range = <<300, 300>>

\* C3: every returned draft has low <= recommended_price <= high; a positive
\* model price outside the model's own range is brought back into it.
C3_PriceWithinRange ==
    Returned => low <= result.recommended_price /\ result.recommended_price <= high

\* C4: every returned draft has a listing_title of at most 80 characters, on
\* the live and on the fallback path; a longer title is truncated.
C4_TitleBound == Returned => Len(result.listing_title) <= 80

\* a live draft whose model title was longer than 80 characters, cut to 80
C4_Witness ==
    /\ Live
    /\ Given(Key.listing_title).t = "str"
    /\ Len(Given(Key.listing_title).s) > 80
    /\ Len(result.listing_title) = 80

\* C5: a run constructs exactly one draft; the draft is tagged LIVE only if a
\* key was configured, the call returned HTTP 200 and a JSON value was parsed
\* from its content; every other run returns the fallback draft, tagged MOCK.
C5_Provenance ==
    Returned =>
        /\ built = 1
        /\ result.source \in {"openai", "mock"}
        /\ Live =>
              /\ Truthy(api_key)
              /\ reply.kind = "response"
              /\ reply.status = 200
              /\ reply.shape \in ObjectShapes \cup {"value"}
        /\ Mock =>
              /\ result.condition_details \in {NoteDemo, NoteUnreachable}
              /\ result.confidence_score = MockConfidence

\* a run whose call was answered 201 with a well-formed completion body, and
\* which returned the fallback draft
C5_Witness ==
    /\ Mock
    /\ built = 1
    /\ reply.status = 201
    /\ reply.is_json

\* C6: with a key, HTTP 200 and a text that holds no JSON object, the draft is
\* MOCK and its condition_details is an unparsable-response note that differs
\* from the note of a failed upstream call.
C6_UnparsableDiagnostic ==
    (Returned /\ Truthy(api_key) /\ reply.status = 200 /\ reply.shape = "prose") =>
        /\ result.source = "mock"
        /\ result.condition_details # NoteUnreachable

\* C7: if the image bytes cannot be decoded as an image, no model call is made
\* in that run, and the run returns a MOCK draft.
C7_NoCallOnBadImage ==
    (pc \in {"awaiting", "returned"} /\ ~decodable(image_data)) =>
        /\ calls = 0
        /\ Returned => result.source = "mock"

\* C8: every reply from which a JSON object is parsed yields a LIVE draft; no
\* single malformed field makes the run fall back to MOCK.
C8_FieldErrorsNeverFallBack ==
    (Returned /\ Truthy(api_key) /\ ObjectReplied) => result.source = "openai"

\* the model gave no usable price: missing, null, unparseable, or <= 0
PriceUnusable ==
    \/ GivenPrice.t \in {"absent", "none", "list", "dict"}
    \/ GivenPrice.t = "float" /\ GivenPrice.k = "nan"
    \/ GivenPrice.t = "str" /\ ~IsNumeric(GivenPrice)
    \/ IsNumeric(GivenPrice) /\ Hundredths(GivenPrice) <= 0

\* C9: when the model gives no usable price, recommended_price is the midpoint
\* of the draft's range in minor units, rounded down: (low + high) \div 2.
C9_MidpointMinorUnits ==
    (Live /\ PriceUnusable) => result.recommended_price = (low + high) \div 2

\* estimated_value_eur is an object whose min and max are whole euros, 0 < min <= max
WholeRangeGiven ==
    /\ GivenRange.t = "dict"
    /\ HasKey(GivenRange, Key.min) /\ HasKey(GivenRange, Key.max)
    /\ IsWholeEuros(get(GivenRange, Key.min)) /\ IsWholeEuros(get(GivenRange, Key.max))
    /\ 0 < Hundredths(get(GivenRange, Key.min))
    /\ Hundredths(get(GivenRange, Key.min)) <= Hundredths(get(GivenRange, Key.max))

RangeAsGiven ==
    WholeRangeGiven =>
        result.estimated_value_range =
            <<Hundredths(get(GivenRange, Key.min)), Hundredths(get(GivenRange, Key.max))>>

\* C10 as claimed: a whole-euro range min <= max is coerced to (min*100, max*100),
\* and every positive model price p gives recommended_price = p*100.
C10_AnyPositivePrice ==
    Live =>
        /\ RangeAsGiven
        /\ (IsNumeric(GivenPrice) /\ Hundredths(GivenPrice) > 0) =>
              result.recommended_price = Hundredths(GivenPrice)

\* C10 as amended: a whole-euro range min <= max is coerced to (min*100, max*100),
\* and a positive model price p of whole euros gives recommended_price = p*100.
C10_WholeEuroCoercion ==
    Live =>
        /\ RangeAsGiven
        /\ (IsWholeEuros(GivenPrice) /\ Hundredths(GivenPrice) > 0) =>
              result.recommended_price = Hundredths(GivenPrice)

\* the reply {min: "20", max: 35.0} coerced to (2000, 3500)
C10_Witness ==
    /\ Live
    /\ reply.doc = P4Doc
    /\ WholeRangeGiven
    /\ result.estimated_value_range = <<2000, 3500>>

(***************************************************************************)
(* Coercion of the range given as text, confidence, notes, defaults        *)
(***************************************************************************)
\* estimated_value_eur is a string "low-high"; its two halves
HyphenRangeGiven == GivenRange.t = "str" /\ Find(GivenRange.s, "-") # 0
LowGiven == PyStr(split1(GivenRange.s, "-")[1])
HighGiven == PyStr(split1(GivenRange.s, "-")[2])

\* estimated_value_eur is a bare number or a numeric string
BareRangeGiven ==
    /\ GivenRange.t \in {"int", "float", "str"}
    /\ ~HyphenRangeGiven
    /\ IsNumeric(GivenRange)

\* C11 as claimed: a string "low-high" with 0 < low <= high is coerced to
\* (low*100, high*100), and every bare positive number or numeric string n to
\* (n*100, n*100).
C11_AnyAmountAsGiven ==
    Live =>
        /\ (/\ HyphenRangeGiven
            /\ IsNumeric(LowGiven) /\ IsNumeric(HighGiven)
            /\ 0 < Hundredths(LowGiven)
            /\ Hundredths(LowGiven) <= Hundredths(HighGiven))
              => result.estimated_value_range = <<Hundredths(LowGiven), Hundredths(HighGiven)>>
        /\ (BareRangeGiven /\ 0 < Hundredths(GivenRange))
              => result.estimated_value_range = <<Hundredths(GivenRange), Hundredths(GivenRange)>>

\* C11 as amended: a string "low-high" of whole euros with 0 < low <= high is
\* coerced to (low*100, high*100), and a bare positive whole-euro number or
\* numeric string n to (n*100, n*100).
C11_WholeEuroText ==
    Live =>
        /\ (/\ HyphenRangeGiven
            /\ IsWholeEuros(LowGiven) /\ IsWholeEuros(HighGiven)
            /\ 0 < Hundredths(LowGiven)
            /\ Hundredths(LowGiven) <= Hundredths(HighGiven))
              => result.estimated_value_range = <<Hundredths(LowGiven), Hundredths(HighGiven)>>
        /\ (BareRangeGiven /\ IsWholeEuros(GivenRange) /\ 0 < Hundredths(GivenRange))
              => result.estimated_value_range = <<Hundredths(GivenRange), Hundredths(GivenRange)>>

\* the reply "15-25" coerced to (1500, 2500)
C11_Witness ==
    /\ Live
    /\ GivenRange = PyStr(<<"1", "5", "-", "2", "5">>)
    /\ result.estimated_value_range = <<1500, 2500>>

\* C13: every returned draft has 0.0 <= confidence_score <= 1.0, whatever the
\* model gave for confidence_score.
C13_ConfidenceInUnitInterval ==
    Returned =>
        /\ result.confidence_score.k = "fin"
        /\ 0 <= result.confidence_score.h
        /\ result.confidence_score.h <= 100

\* C14: a fallback draft carries the note of the branch that built it: the
\* demo-mode note exactly when no key is configured, the other note when a key
\* is configured and the attempt failed; the two notes differ.
C14_NoteNamesTheBranch ==
    /\ NoteDemo # NoteUnreachable
    /\ Mock =>
          /\ result.condition_details = NoteDemo <=> ~Truthy(api_key)
          /\ Truthy(api_key) => result.condition_details = NoteUnreachable

\* a fallback draft built after the POST failed, carrying the second note
C14_Witness ==
    /\ Mock
    /\ Truthy(api_key)
    /\ reply.kind = "error"
    /\ result.condition_details = NoteUnreachable

\* the model gave nothing for the key: it is missing, null or empty
NothingGiven(key) ==
    \/ Given(key).t \in {"absent", "none"}
    \/ Given(key) = PyStr(<<>>)

\* C15: in every returned draft product.name, product.condition and
\* listing_description are non-empty; a missing, null or empty model value is
\* replaced by its default, and the fallback draft's name is non-empty for
\* every filename.
C15_NeverEmpty ==
    /\ Returned =>
          /\ result.product.name # <<>>
          /\ result.product.condition # <<>>
          /\ result.listing_description # <<>>
    /\ Live =>
          /\ NothingGiven(Key.product_name) => result.product.name = Txt.unknown_product
          /\ NothingGiven(Key.condition) => result.product.condition = Txt.gebraucht
          /\ NothingGiven(Key.listing_description) =>
                result.listing_description = default_description(result.product)
    /\ (Mock /\ ~Truthy(filename)) => result.product.name = Txt.produkt

\* a live draft whose model gave an empty condition, replaced by the default
C15_Witness ==
    /\ Live
    /\ Given(Key.condition) = PyStr(<<>>)
    /\ result.product.condition = Txt.gebraucht

(***************************************************************************)
(* Concurrent /analyze requests on the one module-level ListingGenerator.  *)
(* Each request is a coroutine on the event loop: it runs from one await   *)
(* to the next without interruption, and is suspended while its POST is    *)
(* in flight.                                                              *)
(***************************************************************************)
\* requests in progress at the same time
MaxRequests == 2
Slots == 1..MaxRequests

\* OPENAI_BASE_URL and OPENAI_MODEL as __init__ reads them
DefaultSettings == [base_url |-> "https://api.openai.com/v1", model |-> "gpt-4o-mini"]

NoRequest == [pc |-> "idle", image_data |-> "empty", filename |-> None, result |-> NoDraft]
NoTraffic == [posts |-> 0, url |-> "", answer |-> NoReply]

\* the uploads and the endpoint's answers the concurrent requests draw
ConcurrentUploads ==
    { <<"jpeg_800x600", PyStr(Sample.file_speaker)>>,
      <<"not_an_image", PyStr(Sample.file_speaker)>>,
      <<"png_rgba", None>> }
ConcurrentReplies ==
    { ErrorReply("TimeoutError"),
      StatusReply(429, FALSE, None),
      TextReply("prose", Sample.cannot, P7Doc),
      TextReply("object", ObjectText, P7Doc),
      TextReply("object", ObjectText, P4Doc) }

\* the fallback names the product after the file only when the image decodes
demo_draft_by_image(image, fname) ==
    _mock_result(IF decodable(image) THEN fname ELSE None, NoteDemo)

\* analyze_product_image without a key
demo_draft(image, fname) == _mock_result(fname, NoteDemo)

\* the try block and its except clause, once the POST has completed with rep
attempt(fname, rep) ==
    LET finish(out) ==
            IF ~out.ok /\ handler_catches(out.exc)
            THEN Ok(_mock_result(fname, NoteUnreachable))
            ELSE out
    IN  finish(live_path(rep))

\* a POST is skipped when another request is already waiting on the same image
send_deduplicated(w, reqs, r, image) ==
    IF \E q \in DOMAIN reqs : q # r /\ reqs[q].pc = "awaiting" /\ reqs[q].image_data = image
    THEN w
    ELSE [w EXCEPT ![r] = [posts |-> @.posts + 1, url |-> settings.base_url, answer |-> NoReply]]

\* _call_openai_vision opens its own session and posts once
send(w, reqs, r, image) ==
    [w EXCEPT ![r] = [posts |-> @.posts + 1, url |-> settings.base_url, answer |-> NoReply]]

\* the response kept in one place for all the coroutines that wait
resume_shared(reqs, r, rep) ==
    [q \in DOMAIN reqs |->
        IF reqs[q].pc = "awaiting"
        THEN [reqs[q] EXCEPT
                 !.pc = IF attempt(reqs[q].filename, rep).ok THEN "returned" ELSE "raised",
                 !.result = IF attempt(reqs[q].filename, rep).ok
                            THEN attempt(reqs[q].filename, rep).v ELSE NoDraft]
        ELSE reqs[q]]

\* the coroutine of request r resumes with the response to its own POST
resume(reqs, r, rep) ==
    LET ended(out) ==
            [reqs EXCEPT ![r] = [@ EXCEPT !.pc = IF out.ok THEN "returned" ELSE "raised",
                                         !.result = IF out.ok THEN out.v ELSE NoDraft]]
    IN  ended(attempt(reqs[r].filename, rep))

InitConcurrent ==
    /\ api_key \in ApiKeys
    /\ settings = DefaultSettings
    /\ requests = [r \in Slots |-> NoRequest]
    /\ wire = [r \in Slots |-> NoTraffic]
    /\ RequestParked /\ ServicesParked /\ JobsParked

\* POST /analyze: the route reads the upload and calls analyze_product_image,
\* which returns the fallback at once without a key and posts with one
Receive(r, image, fname) ==
    /\ requests[r].pc = "idle"
    /\ IF ~Truthy(api_key)
       THEN /\ requests' = [requests EXCEPT ![r] =
                               [pc |-> "returned", image_data |-> image, filename |-> fname,
                                result |-> demo_draft(image, fname)]]
            /\ wire' = wire
       ELSE /\ requests' = [requests EXCEPT ![r] =
                               [pc |-> "awaiting", image_data |-> image, filename |-> fname,
                                result |-> NoDraft]]
            /\ wire' = send(wire, requests, r, image)
    /\ UNCHANGED <<api_key, settings, outside_concurrent>>

\* the endpoint answers the POST of request r (or the POST fails)
Answer(r, rep) ==
    /\ requests[r].pc = "awaiting"
    /\ wire' = [wire EXCEPT ![r].answer = rep]
    /\ requests' = resume(requests, r, rep)
    /\ UNCHANGED <<api_key, settings, outside_concurrent>>

\* the route serialises the draft of request r and responds
Reply(r) ==
    /\ requests[r].pc \in {"returned", "raised"}
    /\ requests' = [requests EXCEPT ![r] = NoRequest]
    /\ wire' = [wire EXCEPT ![r] = NoTraffic]
    /\ UNCHANGED <<api_key, settings, outside_concurrent>>

NextConcurrent ==
    \/ \E r \in Slots, up \in ConcurrentUploads : Receive(r, up[1], up[2])
    \/ \E r \in Slots, rep \in ConcurrentReplies : Answer(r, rep)
    \/ \E r \in Slots : Reply(r)

SpecConcurrent == InitConcurrent /\ [][NextConcurrent]_vars

(***************************************************************************)
(* Properties of concurrent requests                                       *)
(***************************************************************************)
HasReturned(r) == requests[r].pc = "returned"

\* C12: without credentials analyze_product_image is deterministic and makes
\* no network call: two calls with the same filename, whatever their image
\* bytes, return drafts equal in every field, tagged mock, with confidence 0.4.
C12_DemoDeterministic ==
    ~Truthy(api_key) =>
        /\ \A r \in Slots : wire[r].posts = 0
        /\ \A r \in Slots :
              HasReturned(r) =>
                  /\ requests[r].result.source = "mock"
                  /\ requests[r].result.confidence_score = PyFloat(40)
        /\ \A r, q \in Slots :
              (HasReturned(r) /\ HasReturned(q) /\ requests[r].filename = requests[q].filename)
                  => requests[r].result = requests[q].result

\* two calls without a key, same filename, different image bytes, equal drafts
C12_Witness ==
    /\ ~Truthy(api_key)
    /\ HasReturned(1) /\ HasReturned(2)
    /\ requests[1].filename = requests[2].filename
    /\ requests[1].image_data # requests[2].image_data
    /\ requests[1].result = requests[2].result

\* the draft request r is owed: a function of its own filename and of the
\* answer to its own POST
OwnDraft(r) ==
    IF ~Truthy(api_key)
    THEN demo_draft(requests[r].image_data, requests[r].filename)
    ELSE attempt(requests[r].filename, wire[r].answer).v

\* C16: concurrent invocations do not interfere: under every interleaving the
\* draft returned to a request is determined by its own image and filename and
\* its own model response, and no invocation changes the generator's api_key,
\* base_url or model.
C16_NoInterference ==
    /\ [](\A r \in Slots : HasReturned(r) => requests[r].result = OwnDraft(r))
    /\ [][api_key' = api_key /\ settings' = settings]_vars

\* two requests in progress together that got different answers: one draft is
\* live, the other the fallback
C16_Witness ==
    /\ Truthy(api_key)
    /\ HasReturned(1) /\ HasReturned(2)
    /\ requests[1].result.source = "openai"
    /\ requests[2].result.source = "mock"
    /\ wire[2].answer.kind = "error"

\* C17: with credentials each request performs exactly one outbound call, and
\* without credentials none; identical concurrent requests are not
\* deduplicated, each sends its own call.
C17_OnePostPerRequest ==
    \A r \in Slots :
        /\ requests[r].pc \in {"awaiting", "returned"} =>
              wire[r].posts = IF Truthy(api_key) THEN 1 ELSE 0
        /\ requests[r].pc = "idle" => wire[r].posts = 0

\* two requests carrying the same image, both suspended in their own POST
C17_Witness ==
    /\ requests[1].pc = "awaiting" /\ requests[2].pc = "awaiting"
    /\ requests[1].image_data = requests[2].image_data
    /\ wire[1].posts = 1 /\ wire[2].posts = 1

(***************************************************************************)
(* The services of main_optimized: vision_service and content_service     *)
(***************************************************************************)
\* keys and string literals of the two services
ServiceLit ==
    [title |-> <<"t", "i", "t", "l", "e">>,
     product |-> <<"p", "r", "o", "d", "u", "c", "t">>,
     name |-> <<"n", "a", "m", "e">>,
     category |-> <<"c", "a", "t", "e", "g", "o", "r", "y">>,
     top_zustand |-> <<" ", "-", " ", "T", "o", "p", " ", "Z", "u", "s", "t", "a", "n", "d", "!">>,
     iphone |-> <<"A", "p", "p", "l", "e", " ", "i", "P", "h", "o", "n", "e", " ", "1", "2", " ", "P", "r", "o", " ", "1", "2", "8", "G", "B">>,
     verkauf |-> <<"v", "e", "r", "k", "a", "u", "f">>]

\* suggested_keywords of MockVisionService
MockKeywords ==
    <<<<"i", "P", "h", "o", "n", "e", " ", "1", "2", " ", "P", "r", "o">>,
      <<"A", "p", "p", "l", "e">>,
      <<"1", "2", "8", "G", "B">>,
      <<"S", "p", "a", "c", "e", " ", "G", "r", "a", "u">>,
      <<"5", "G">>,
      <<"u", "n", "l", "o", "c", "k", "e", "d">>,
      <<"o", "h", "n", "e", " ", "V", "e", "r", "t", "r", "a", "g">>,
      <<"P", "r", "o", "M", "a", "x">>>>

\* for attempt in range(3); if attempt == 2: raise
MaxAttempts == 3
LastAttempt == 2
\* await asyncio.sleep(1) after a failed attempt
PauseAfterError == 1

\* pydantic's validation of a str, a float and a List[str] field; whether a
\* number is accepted for a str field depends on the installed pydantic
as_str(v, coerces) ==
    CASE v.t = "str" -> Ok(v.s)
      [] v.t \in {"int", "float"} /\ coerces -> Ok(py_str(v))
      [] OTHER -> Raise("ValidationError")

as_float(v) ==
    CASE v.t \in {"int", "float"} -> py_float(v)
      [] v.t = "str" -> (IF float_of_text(v.s).ok THEN float_of_text(v.s)
                         ELSE Raise("ValidationError"))
      [] OTHER -> Raise("ValidationError")

as_str_list(v, coerces) ==
    IF v.t = "list" /\ \A i \in 1..Len(v.items) : as_str(v.items[i], coerces).ok
    THEN Ok([i \in 1..Len(v.items) |-> as_str(v.items[i], coerces).v])
    ELSE Raise("ValidationError")

\* json.loads(response["choices"][0]["message"]["content"])
loaded_content(response) ==
    LET load(c) == IF c.ok THEN json_loads(c.v) ELSE c
    IN  load(read_content(response))

(***************************************************************************)
(* content_service: AIContentService and MockContentService                *)
(***************************************************************************)
RECURSIVE join_nonempty(_)
\* " ".join(filter(None, parts)) for parts that are str or None
join_nonempty(parts) ==
    LET rest(head, tail) ==
            IF head = <<>> THEN tail
            ELSE IF tail = <<>> THEN head
            ELSE head \o <<" ">> \o tail
    IN  IF parts = <<>> THEN <<>>
        ELSE rest(IF Truthy(Head(parts)) THEN Head(parts).s ELSE <<>>,
                  join_nonempty(Tail(parts)))

\* MockContentService: f"{brand} {name} - {condition} - Top Zustand!"
mock_content(product) ==
    [path |-> "mock",
     title |-> py_str(product.brand) \o <<" ">> \o product.name \o Txt.dash
                  \o product.condition \o ServiceLit.top_zustand]

\* _generate_fallback_content: the joined parts cut to 80 characters
fallback_content(product) ==
    [path |-> "fallback",
     title |-> SliceTo(join_nonempty(<<product.brand, PyStr(product.name),
                                       PyStr(product.condition)>>), TitleLimit)]

\* _parse_content_response: the model's title or "{name} - {condition}";
\* any exception, a validation error included, gives the fallback content
_parse_content_response(response, product, coerces) ==
    LET made(title) ==
            IF title.ok THEN [path |-> "parsed", title |-> title.v]
            ELSE fallback_content(product)
        read(data) ==
            IF ~data.ok \/ data.v.t # "dict" THEN fallback_content(product)
            ELSE made(as_str(get_default(data.v, ServiceLit.title,
                                          PyStr(product.name \o Txt.dash \o product.condition)),
                              coerces))
    IN  read(loaded_content(response))

(***************************************************************************)
(* vision_service: OpenAIVisionService and MockVisionService               *)
(***************************************************************************)
\* MockVisionService.analyze_product_image
mock_analysis ==
    [path |-> "mock", name |-> ServiceLit.iphone, suggested_keywords |-> MockKeywords,
     confidence_score |-> PyFloat(92)]

\* the result built in the except clause of _parse_analysis_response
default_analysis ==
    [path |-> "fallback", name |-> Txt.unknown_product,
     suggested_keywords |-> <<Txt.kw_gebraucht, ServiceLit.verkauf>>,
     confidence_score |-> PyFloat(10)]

\* ProductFeatures(**analysis_data["product"]): name and category are required
product_features(data, coerces) ==
    LET fields(p) ==
            IF p.t # "dict" THEN Raise("TypeError")
            ELSE IF ~HasKey(p, ServiceLit.name) \/ ~HasKey(p, ServiceLit.category)
            THEN Raise("ValidationError")
            ELSE IF ~as_str(get(p, ServiceLit.category), coerces).ok
            THEN Raise("ValidationError")
            ELSE as_str(get(p, ServiceLit.name), coerces)
    IN  IF data.t # "dict" THEN Raise("TypeError")
        ELSE IF ~HasKey(data, ServiceLit.product) THEN Raise("KeyError")
        ELSE fields(get(data, ServiceLit.product))

\* _parse_analysis_response: the validated result, or the default result on
\* any exception
_parse_analysis_response(response, coerces) ==
    LET made(name, conf, kws) ==
            IF name.ok /\ conf.ok /\ kws.ok
            THEN [path |-> "parsed", name |-> name.v, suggested_keywords |-> kws.v,
                  confidence_score |-> conf.v]
            ELSE default_analysis
        read(data) ==
            IF ~data.ok \/ data.v.t # "dict" THEN default_analysis
            ELSE made(product_features(data.v, coerces),
                       as_float(get_default(data.v, Key.confidence_score, PyFloat(80))),
                       as_str_list(get_default(data.v, Key.suggested_keywords, PyList(<<>>)),
                                   coerces))
    IN  read(loaded_content(response))

(***************************************************************************)
(* One call of a service: analyze_product_image of the vision service or   *)
(* generate_listing_content of the content service, with the retry loop    *)
(* of _call_openai_vision / _call_openai_gpt                               *)
(***************************************************************************)
NoResult == [path |-> "none"]

IdleService(kind, coerces) ==
    [kind |-> kind, coerces |-> coerces, pc |-> "idle", input |-> None, attempt |-> 0,
     posts |-> 0, waits |-> <<>>, log |-> <<>>, result |-> NoResult]

\* how one attempt of the loop ended: with a response of some status, or with
\* an exception out of the POST
responded(status) == [kind |-> "response", status |-> status]
failed(exc) == [kind |-> "raised", exc |-> exc]

\* what the service makes of the value its call returned
parsed(s, response) ==
    IF s.kind = "vision" THEN _parse_analysis_response(response, s.coerces)
    ELSE _parse_content_response(response, s.input, s.coerces)

\* the call returned `response` (None when the loop ran out): parse and return
returns(s, response) == [s EXCEPT !.pc = "returned", !.result = parsed(s, response)]

\* a loop that goes on for as long as attempts end without a 200
next_attempt_unbounded(s) == [s EXCEPT !.attempt = @ + 1, !.posts = @ + 1]

\* the loop goes on to its next attempt and posts again, or runs out after the
\* last one and the call returns None
next_attempt(s) ==
    IF s.attempt + 1 < MaxAttempts
    THEN [s EXCEPT !.attempt = @ + 1, !.posts = @ + 1]
    ELSE returns(s, None)

\* the products a listing is written for, and the images analysed
ContentProducts ==
    {[brand |-> b, name |-> n, condition |-> Sample.gut] :
        b \in {None, PyStr(Sample.sony)},
        n \in {Sample.lautsprecher, Rep("n", TitleLimit - 10), Rep("n", TitleLimit + ExtraTitle)}}
ServiceImages == {"jpeg_800x600", "not_an_image"}

\* the objects the content model may send
ContentDocs ==
    {Put(PyDict(<<>>), ServiceLit.title, t) :
        t \in {Absent, None, PyInt(12345), PyStr(Sample.p7_title), PyStr(Rep("t", TitleLimit)),
               PyStr(Rep("t", TitleLimit + ExtraTitle))}}

\* the objects the vision model may send
VisionProducts ==
    {Absent, None}
        \cup {Put(Put(PyDict(<<>>), ServiceLit.name, n), ServiceLit.category, c) :
                n \in {Absent, None, PyInt(42), PyStr(<<>>), PyStr(Sample.lautsprecher)},
                c \in {Absent, PyStr(Sample.elektronik)}}
VisionDocs ==
    {Put(Put(Put(PyDict(<<>>), ServiceLit.product, p), Key.confidence_score, c),
         Key.suggested_keywords, k) :
        p \in VisionProducts,
        c \in {Absent, None, PyFloat(20), PyFloat(92), PyInt(5), PyStr(Sample.high),
               PyStr(<<"0", ".", "9">>)},
        k \in {Absent, PyList(<<>>), PyList(<<PyStr(Sample.kw_sony)>>), PyStr(Sample.kw_sony),
               PyList(<<PyStr(Sample.kw_sony), PyInt(3)>>)}}

\* the JSON bodies a 200 response may carry
ServiceBodies(kind) ==
    {PyDict(<<>>), Envelope(None), Envelope(ContentStr(Sample.cannot, None)),
     Envelope(ContentStr(<<"<value>">>, PyList(<<>>)))}
        \cup {Envelope(ContentStr(ObjectText, d)) :
                d \in IF kind = "vision" THEN VisionDocs ELSE ContentDocs}

\* statuses other than 200 and 429
OtherStatuses == {400, 401, 404, 500}

\* exceptions of an attempt: the POST fails, or the 200 body is not JSON
AttemptErrors == {"ClientConnectorError", "TimeoutError", "ContentTypeError"}

\* create_vision_service(api_key) / create_content_service(api_key)
InitServices ==
    /\ api_key \in ApiKeys
    /\ svc \in {IdleService(kind, coerces) : kind \in {"vision", "content"}, coerces \in BOOLEAN}
    /\ RequestParked /\ ConcurrentParked /\ JobsParked

\* the caller awaits the service: the mock service returns its result, the
\* live vision service prepares the image (and raises if it is none), and the
\* live services enter the retry loop with the first POST
Invoke(input) ==
    /\ svc.pc = "idle"
    /\ svc' =
          IF ~Truthy(api_key)
          THEN [svc EXCEPT !.input = input, !.pc = "returned",
                           !.result = IF svc.kind = "vision" THEN mock_analysis
                                      ELSE mock_content(input)]
          ELSE IF svc.kind = "vision" /\ ~decodable(input)
          THEN [svc EXCEPT !.input = input, !.pc = "raised"]
          ELSE [svc EXCEPT !.input = input, !.pc = "posting", !.attempt = 0, !.posts = 1]
    /\ UNCHANGED <<api_key, outside_services>>

\* status 200: return await response.json()
Answered(body) ==
    /\ svc.pc = "posting"
    /\ svc' = returns([svc EXCEPT !.log = Append(@, responded(200))], body)
    /\ UNCHANGED <<api_key, outside_services>>

\* status 429: sleep 2 ** attempt, then the next attempt
RateLimited ==
    /\ svc.pc = "posting"
    /\ svc' = next_attempt([svc EXCEPT !.waits = Append(@, 2 ^ svc.attempt),
                                     !.log = Append(@, responded(429))])
    /\ UNCHANGED <<api_key, outside_services>>

\* any other status: the error is logged, then the next attempt
Refused(status) ==
    /\ svc.pc = "posting"
    /\ svc' = next_attempt([svc EXCEPT !.log = Append(@, responded(status))])
    /\ UNCHANGED <<api_key, outside_services>>

\* the attempt raises: re-raised on the last attempt, else sleep 1 and go on
AttemptFails(exc) ==
    /\ svc.pc = "posting"
    /\ svc' =
          IF svc.attempt = LastAttempt
          THEN [svc EXCEPT !.pc = "raised", !.log = Append(@, failed(exc))]
          ELSE next_attempt([svc EXCEPT !.waits = Append(@, PauseAfterError),
                                        !.log = Append(@, failed(exc))])
    /\ UNCHANGED <<api_key, outside_services>>

\* the caller takes the result or the exception
Collect ==
    /\ svc.pc \in {"returned", "raised"}
    /\ svc' = IdleService(svc.kind, svc.coerces)
    /\ UNCHANGED <<api_key, outside_services>>

NextServices ==
    \/ \E input \in IF svc.kind = "vision" THEN ServiceImages ELSE ContentProducts : Invoke(input)
    \/ \E body \in ServiceBodies(svc.kind) : Answered(body)
    \/ RateLimited
    \/ \E status \in OtherStatuses : Refused(status)
    \/ \E exc \in AttemptErrors : AttemptFails(exc)
    \/ Collect

SpecServices == InitServices /\ [][NextServices]_vars

\* C18: every ListingContent the content service returns has a title of at
\* most 80 characters, on the parsed, the fallback and the mock path.
C18_ContentTitleBound ==
    (svc.kind = "content" /\ svc.pc = "returned") => Len(svc.result.title) <= 80

\* C20: every VisionAnalysisResult the vision service returns has a non-empty
\* product name, at least one suggested keyword and confidence_score > 0.3, on
\* the mock, the parsed and the default path.
C20_AnalysisQuality ==
    (svc.kind = "vision" /\ svc.pc = "returned") =>
        /\ svc.result.name # <<>>
        /\ Len(svc.result.suggested_keywords) >= 1
        /\ svc.result.confidence_score.k = "fin"
        /\ svc.result.confidence_score.h > 30

(***************************************************************************)
(* main_optimized: the background pipeline process_product_complete, the   *)
(* Job row it updates, and the status poll.  Every await is a point where  *)
(* the event loop may run another coroutine; what a poll sees is the row   *)
(* as last committed.                                                      *)
(***************************************************************************)
\* jobs that may be in progress at the same time
MaxJobs == 2
JobIds == 1..MaxJobs

NoJob == [status |-> "absent", progress |-> 0, message |-> FALSE, result |-> FALSE,
          completed |-> FALSE]

\* Job(id=job_id, status="queued", progress=0, created_at=...)
NewJob == [NoJob EXCEPT !.status = "queued"]

\* update_progress(status, progress, message): get, assign, commit
update_progress(row, status, progress) ==
    IF row.status = "absent" THEN row
    ELSE [row EXCEPT !.status = status, !.progress = progress, !.message = TRUE]

\* the update_progress calls of the try block in program order: where the
\* pipeline stands, what it commits, where it stands afterwards
ProgressCalls ==
    [start      |-> <<"analyzing", 10, "vision">>,
     recognized |-> <<"analyzing", 30, "research">>,
     research   |-> <<"researching", 40, "market">>,
     researched |-> <<"researching", 60, "write">>,
     write      |-> <<"generating", 70, "content">>,
     written    |-> <<"generating", 90, "finish">>,
     finish     |-> <<"ready", 100, "package">>]

\* the awaited services: where the pipeline stands, where it stands when the
\* service returns; a failed market research falls back to mock data, but
\* building its query raises for a product with a brand and a blank name
ServiceCalls ==
    [vision  |-> [returns |-> "recognized", may_raise |-> TRUE],
     market  |-> [returns |-> "researched", may_raise |-> TRUE],
     content |-> [returns |-> "written", may_raise |-> TRUE]]

\* the response of GET /api/status/{job_id} for a row
status_response(job_id, row) ==
    IF row.status = "absent"
    THEN [code |-> 404, job_id |-> job_id, status |-> "absent", progress |-> 0,
          has_result |-> FALSE, has_error |-> FALSE]
    ELSE [code |-> 200, job_id |-> job_id, status |-> row.status, progress |-> row.progress,
          has_result |-> row.status = "ready" /\ row.result,
          has_error |-> row.status = "error"]

InitJobs ==
    /\ jobs = [j \in JobIds |-> NoJob]
    /\ pipeline = [j \in JobIds |-> "none"]
    /\ polled = None
    /\ api_key = None
    /\ RequestParked /\ ConcurrentParked /\ ServicesParked

\* POST /api/analyze-product: the Job row is committed and the pipeline is
\* handed to the background tasks
Submit(j) ==
    /\ pipeline[j] = "none"
    /\ jobs' = [jobs EXCEPT ![j] = NewJob]
    /\ pipeline' = [pipeline EXCEPT ![j] = "start"]
    /\ UNCHANGED <<api_key, polled, outside_jobs>>

\* the pipeline of job j runs its next update_progress
Progress(j) ==
    /\ pipeline[j] \in DOMAIN ProgressCalls
    /\ jobs' = [jobs EXCEPT ![j] =
                   update_progress(@, ProgressCalls[pipeline[j]][1], ProgressCalls[pipeline[j]][2])]
    /\ pipeline' = [pipeline EXCEPT ![j] = ProgressCalls[pipeline[j]][3]]
    /\ UNCHANGED <<api_key, polled, outside_jobs>>

\* the service the pipeline of job j awaits returns
ServiceReturns(j) ==
    /\ pipeline[j] \in DOMAIN ServiceCalls
    /\ pipeline' = [pipeline EXCEPT ![j] = ServiceCalls[pipeline[j]].returns]
    /\ UNCHANGED <<api_key, jobs, polled, outside_jobs>>

\* a pipeline in which the packaging of the result, after the 'ready' update,
\* may raise as well
ServiceRaises_also_packaging(j) ==
    /\ pipeline[j] \in DOMAIN ServiceCalls \cup {"package"}
    /\ pipeline' = [pipeline EXCEPT ![j] = "failed"]
    /\ UNCHANGED <<api_key, jobs, polled, outside_jobs>>

\* the service the pipeline of job j awaits raises: the except clause is entered
ServiceRaises(j) ==
    /\ pipeline[j] \in DOMAIN ServiceCalls
    /\ ServiceCalls[pipeline[j]].may_raise
    /\ pipeline' = [pipeline EXCEPT ![j] = "failed"]
    /\ UNCHANGED <<api_key, jobs, polled, outside_jobs>>

\* except Exception: update_progress("error", 0, ...), then HTTPException
RecordError(j) ==
    /\ pipeline[j] = "failed"
    /\ jobs' = [jobs EXCEPT ![j] = update_progress(@, "error", 0)]
    /\ pipeline' = [pipeline EXCEPT ![j] = "aborted"]
    /\ UNCHANGED <<api_key, polled, outside_jobs>>

\* the result package is built and committed: job.result, job.completed_at
StoreResult(j) ==
    /\ pipeline[j] = "package"
    /\ jobs' = [jobs EXCEPT ![j] =
                   IF @.status = "absent" THEN @ ELSE [@ EXCEPT !.result = TRUE, !.completed = TRUE]]
    /\ pipeline' = [pipeline EXCEPT ![j] = "done"]
    /\ UNCHANGED <<api_key, polled, outside_jobs>>

\* GET /api/status/{job_id}
Poll(j) ==
    /\ polled' = status_response(j, jobs[j])
    /\ UNCHANGED <<api_key, jobs, pipeline, outside_jobs>>

NextJobs ==
    \/ \E j \in JobIds : Submit(j)
    \/ \E j \in JobIds : Progress(j)
    \/ \E j \in JobIds : ServiceReturns(j)
    \/ \E j \in JobIds : ServiceRaises(j)
    \/ \E j \in JobIds : RecordError(j)
    \/ \E j \in JobIds : StoreResult(j)
    \/ \E j \in JobIds : Poll(j)

SpecJobs == InitJobs /\ [][NextJobs]_vars

\* C19: whenever the status poll reports 'ready' the response carries the
\* result: no job is stored as 'ready' while its result is unset.
C19_ReadyCarriesResult ==
    /\ \A j \in JobIds : jobs[j].status = "ready" => jobs[j].result
    /\ (polled # None /\ polled.status = "ready") => polled.has_result

(***************************************************************************)
(* The retry loop of the two service calls                                 *)
(***************************************************************************)
\* the pause after attempt i (counted from 1) given how it ended: 2 ** attempt
\* after a 429, one second after an exception that is not the last attempt's
RECURSIVE PausesOf(_, _)
PausesOf(log, i) ==
    IF i > Len(log) THEN <<>>
    ELSE (IF log[i].kind = "response" /\ log[i].status = 429 THEN <<2 ^ (i - 1)>>
          ELSE IF log[i].kind = "raised" /\ i < MaxAttempts THEN <<PauseAfterError>>
          ELSE <<>>) \o PausesOf(log, i + 1)

RateLimitedAt(i) == i <= Len(svc.log) /\ svc.log[i].kind = "response" /\ svc.log[i].status = 429

\* C21: a call of _call_openai_vision / _call_openai_gpt makes at most 3 HTTP
\* attempts whatever mix of 429, other statuses and exceptions it meets, one
\* POST per attempt, and the pause after a 429 on attempt a is 2 ** a seconds:
\* 1, 2, 4 after three 429 in a row.
C21_ThreeAttemptsBackoff ==
    /\ svc.posts <= 3
    /\ Len(svc.log) <= svc.posts
    /\ svc.pc = "posting" => svc.posts = Len(svc.log) + 1
    /\ svc.waits = PausesOf(svc.log, 1)
    /\ (RateLimitedAt(1) /\ RateLimitedAt(2) /\ RateLimitedAt(3)) => svc.waits = <<1, 2, 4>>
C21_Witness ==
    /\ svc.pc = "returned" /\ svc.posts = 3
    /\ RateLimitedAt(1) /\ RateLimitedAt(2) /\ RateLimitedAt(3)
    /\ svc.waits = <<1, 2, 4>>

RefusedAt(i) ==
    i <= Len(svc.log) /\ svc.log[i].kind = "response" /\ svc.log[i].status \in OtherStatuses

\* C23: a response with a status other than 200 and 429 (400, 401, 404, 500)
\* ends the service call at once: no further HTTP attempt follows it, so such
\* a response is always the last entry of the call's attempts and no POST is
\* outstanding after it.
C23_OtherStatusFailsAtOnce ==
    \A i \in 1..Len(svc.log) :
        RefusedAt(i) => (i = Len(svc.log) /\ svc.pc # "posting")

\* C24: a live service call that completes normally returns the JSON body of
\* a 200 response; when every attempt was answered with 429 or another status
\* the call raises and does not return (None).
C24_ReturnsOnlyAResponse ==
    (svc.pc = "returned" /\ Truthy(api_key)) =>
        /\ svc.log # <<>>
        /\ svc.log[Len(svc.log)] = responded(200)

(***************************************************************************)
(* ListingGenerator: retries, termination, parsing and coercion            *)
(***************************************************************************)
\* C22: ListingGenerator sends a rate-limited request again, up to 2 retries,
\* so a run ends on a 429 response only after the request was sent 3 times.
C22_RateLimitRetried ==
    (Returned /\ reply.kind = "response" /\ reply.status = 429) => calls = 3

\* an awaited POST does not stay pending for ever: the session's
\* ClientTimeout(total=40) ends it with a TimeoutError at the latest, unless a
\* response or a connection error has ended it before
SpecTerminating == Spec /\ WF_vars(HttpFails)

\* C25: every run of analyze_product_image terminates once its HTTP call has
\* returned, failed or timed out; the request is sent at most once and at
\* most one draft, live or fallback, is built; the step that takes the
\* call's outcome always ends the run, no failed stage is tried again.
C25_RunsOnceAndTerminates ==
    /\ [](calls <= 1 /\ built <= 1)
    /\ [][pc = "awaiting" => pc' = "returned"]_vars
    /\ (pc = "awaiting" ~> pc = "returned")
C25_Witness ==
    /\ Mock /\ calls = 1 /\ built = 1
    /\ reply.kind = "error" /\ reply.exc = "TimeoutError"

ObjectFollowedByText == {"wrapped", "fenced", "object_then_brace", "two_objects"}

\* C26: a 200 reply whose content is not valid JSON but holds an object is
\* parsed from its first balanced {...} substring and yields a LIVE draft,
\* whatever text follows the object; content without any {...} falls back.
C26_FirstBalancedObject ==
    (Returned /\ Truthy(api_key) /\ reply.kind = "response" /\ reply.status = 200) =>
        /\ reply.shape \in ObjectFollowedByText => Live
        /\ reply.shape \in {"empty", "prose"} => Mock

\* the list a value is coerced to: every element of a list as text, stripped,
\* the empty ones left out; nothing of any other value
AsTexts(v) ==
    IF v.t = "list"
    THEN SelectSeq([i \in 1..Len(v.items) |-> strip(py_str(v.items[i]))], LAMBDA s : s # <<>>)
    ELSE <<>>

\* C27: features and suggested_keywords of a live draft: a value that is not
\* a list gives the empty list; of a list every element is stringified and
\* stripped, empty and whitespace-only entries are discarded, the order is
\* kept and duplicates are kept.
C27_ListsCoerced ==
    Live =>
        /\ result.product.features = AsTexts(Given(Key.features))
        /\ result.suggested_keywords = AsTexts(Given(Key.suggested_keywords))
C27_Witness ==
    /\ Live
    /\ Given(Key.features) =
          PyList(<<PyStr(<<" ", "a", " ">>), PyStr(<<" ">>), PyInt(3), PyStr(<<>>),
                   PyStr(<<"a">>), None>>)
    /\ result.product.features = << <<"a">>, <<"3">>, <<"a">>, Lit.none_ >>
    /\ Given(Key.suggested_keywords) = PyStr(Sample.sony)
    /\ result.suggested_keywords = <<>>

\* whole euros of an amount in hundredths, truncated toward zero
WholeEuros(h) == IF h < 0 THEN -((-h) \div 100) ELSE h \div 100

\* C28: on the live path low, high and recommended_price are whole multiples
\* of 100: a euro amount is truncated toward zero before it is converted, so
\* 1.99 becomes 100, and 0.5 becomes 0 and is then replaced by the midpoint.
C28_WholeEuroMultiples ==
    Live =>
        /\ low % 100 = 0 /\ high % 100 = 0 /\ result.recommended_price % 100 = 0
        /\ (IsNumeric(GivenPrice) /\ Hundredths(GivenPrice) >= 100) =>
               result.recommended_price = WholeEuros(Hundredths(GivenPrice)) * 100
        /\ (IsNumeric(GivenPrice) /\ Hundredths(GivenPrice) < 100) =>
               result.recommended_price = ((low \div 100 + high \div 100) \div 2) * 100
C28_Witness ==
    /\ Live /\ GivenPrice = PyFloat(199) /\ result.recommended_price = 100
    /\ GivenRange = MinMax(PyFloat(250), PyFloat(199)) /\ low = 200 /\ high = 200

\* min and max as the model gave them, in an object, in "low-high" or bare
GivenMin ==
    IF GivenRange.t = "dict" THEN get_default(GivenRange, Key.min, Absent)
    ELSE IF HyphenRangeGiven THEN LowGiven
    ELSE IF GivenRange.t \in {"int", "float", "str", "bool"} THEN GivenRange
    ELSE Absent
GivenMax ==
    IF GivenRange.t = "dict" THEN get_default(GivenRange, Key.max, Absent)
    ELSE IF HyphenRangeGiven THEN HighGiven
    ELSE IF GivenRange.t \in {"int", "float", "str", "bool"} THEN GivenRange
    ELSE Absent

\* v can be read as an amount; EurosOf(v) is that amount in whole euros
Readable(v) == v.t = "bool" \/ IsNumeric(v)
EurosOf(v) == IF v.t = "bool" THEN (IF v.b THEN 1 ELSE 0) ELSE WholeEuros(Hundredths(v))

\* C29: the range is repaired by clamping only: a min that truncates to more
\* than 0 is kept, low == min*100; a max that is missing, unparseable or below
\* min gives high == low, the bounds are never swapped; a min that is missing,
\* unparseable or <= 0 gives low == 2000.
C29_ClampOnly ==
    Live =>
        /\ (Readable(GivenMin) /\ EurosOf(GivenMin) > 0) => low = EurosOf(GivenMin) * 100
        /\ (~Readable(GivenMin) \/ EurosOf(GivenMin) <= 0) => low = 2000
        /\ (\/ ~Readable(GivenMax)
            \/ Readable(GivenMin) /\ EurosOf(GivenMax) < EurosOf(GivenMin)) => high = low
C29_Witness ==
    /\ Live /\ GivenRange = PyStr(<<"2", "5", "-", "1", "5">>)
    /\ low = 2500 /\ high = 2500

(***************************************************************************)
(* The life of a job row in main_optimized                                 *)
(***************************************************************************)
StageRank == [queued |-> 0, analyzing |-> 1, researching |-> 2, generating |-> 3, ready |-> 4]

\* row b may follow row a
MovesForward(a, b) ==
    CASE a.status = "absent" -> b.status \in {"absent", "queued"}
      [] a.status \in {"ready", "error"} -> b.status = a.status /\ b.progress = a.progress
      [] OTHER ->
            \/ b.status = "error"
            \/ /\ b.status \in DOMAIN StageRank
               /\ StageRank[b.status] >= StageRank[a.status]
               /\ b.progress >= a.progress

\* C30: a job's status only moves forward, queued, analyzing, researching,
\* generating, ready, or to error from an earlier stage; progress does not
\* decrease while there is no error and is 100 exactly when the status is
\* 'ready'; 'ready' and 'error' are absorbing.
C30_StatusMovesForward ==
    /\ [][\A j \in JobIds : MovesForward(jobs[j], jobs'[j])]_vars
    /\ [](\A j \in JobIds : jobs[j].progress = 100 <=> jobs[j].status = "ready")
C30_Witness ==
    \E j, k \in JobIds :
        /\ jobs[j].status = "ready" /\ jobs[j].progress = 100 /\ pipeline[j] = "done"
        /\ jobs[k].status = "error" /\ jobs[k].progress = 0 /\ pipeline[k] = "aborted"

=============================================================================
